---------------------------- MODULE Spec2Model ----------------------------
(***************************************************************************)
(* Model of lib/sqlalchemy/dialects/postgresql/json.py: the JSON / JSONB   *)
(* column types, their comparators (index, astext, JSONB predicates and    *)
(* operator adaptation) and the bind / result processors.                  *)
(*                                                                         *)
(* Text is a sequence of one-character strings, so that formatting and     *)
(* parsing are computed character by character.                            *)
(***************************************************************************)
EXTENDS Integers, Sequences, FiniteSets, TLC

VARIABLES
    self,       \* the column's type object: name, none_as_null, index_map
    expr,       \* the expression built so far (a column or a binary expression)
    call,       \* the last comparator call: its name, argument and receiver
    raised,     \* the exception the last call raised, "" when it returned
    adapted,    \* what the last _adapt_expression call returned
    dialect,    \* the dialect the processors were built for
    pc,         \* codec: "idle", "bound" (bind processor ran), "fetched"
    value,      \* codec: the value handed to the bind processor
    wire,       \* codec: what the bind processor returned
    back        \* codec: what the result processor returned

vars == <<self, expr, call, raised, adapted, dialect, pc, value, wire, back>>
exprVars == <<self, expr, call, raised, adapted>>
codecVars == <<dialect, pc, value, wire, back>>

----------------------------------------------------------------------------
(* Bounds *)

\* longest chain of index operations on one column
MaxChain == 2
\* most elements in a list, tuple or mapping handed to the bind processor
MaxLen == 2
\* most keys in a path index
MaxPath == 2

----------------------------------------------------------------------------
(* Operators: json.py lines 21-39 *)

INDEX == [opstring |-> "->", precedence |-> 5,
          natural_self_precedent |-> TRUE, is_custom |-> TRUE]

PATHIDX == [opstring |-> "#>", precedence |-> 5,
            natural_self_precedent |-> TRUE, is_custom |-> TRUE]

ASTEXT_Terminal == [opstring |-> "->>", precedence |-> 5,
                    natural_self_precedent |-> FALSE, is_custom |-> TRUE]

ASTEXT == [opstring |-> "->>", precedence |-> 5,
           natural_self_precedent |-> TRUE, is_custom |-> TRUE]

ASTEXT_PATHIDX == [opstring |-> "#>>", precedence |-> 5,
                   natural_self_precedent |-> TRUE, is_custom |-> TRUE]

\* the names bound in the module's global namespace (imports, lines 9-16, and
\* the module-level assignments and classes)
ModuleGlobals ==
    {"absolute_import", "collections", "json", "ischema_names", "sqltypes",
     "operators", "elements", "util", "__all__", "INDEX", "PATHIDX",
     "ASTEXT", "ASTEXT_PATHIDX", "JSON", "JSONB"}

\* expr.op(opstring): a custom operator with the defaults of Operators.op
op(opstring) == [opstring |-> opstring, precedence |-> 0,
                 natural_self_precedent |-> FALSE, is_custom |-> TRUE]

\* the built-in (non-custom) concatenation operator
concat_op == [opstring |-> "||", precedence |-> 6,
              natural_self_precedent |-> FALSE, is_custom |-> FALSE]

\* the built-in (non-custom) equality operator
eq_op == [opstring |-> "=", precedence |-> 5,
          natural_self_precedent |-> FALSE, is_custom |-> FALSE]

----------------------------------------------------------------------------
(* Types *)

DocTypes == {"JSON", "JSONB"}

\* index_map of a type that gives none: only ANY_KEY -> SAME_TYPE
DefaultIndexMap == [k \in {} |-> "Text"]

\* an index_map with one explicit key besides ANY_KEY -> SAME_TYPE
CustomIndexMap == [k \in {<<"b">>} |-> "Integer"]

\* JSON.__init__ / JSONB: the type object
JSON_init(name, none_as_null, index_map) ==
    [name |-> name, none_as_null |-> none_as_null, index_map |-> index_map]

Column(type) == [kind |-> "column", type |-> type.name]

BinaryExpression(left, right, operator, type) ==
    [kind |-> "binary", left |-> left, operator |-> operator,
     right |-> right, type |-> type]

\* left.operate(operator, right, result_type=type): with a result type
\* given, the expression is built as is
operate(left, operator, right, result_type) ==
    BinaryExpression(left, right, operator, result_type)

RECURSIVE Depth(_)
Depth(e) == IF e.kind = "column" THEN 0 ELSE 1 + Depth(e.left)

----------------------------------------------------------------------------
(* Index keys *)

TextKey(s) == [kind |-> "text", key |-> s]
NumberKey(n) == [kind |-> "number", key |-> n]
SequenceKey(q) == [kind |-> "sequence", key |-> q]
NoneKey == [kind |-> "none", key |-> <<>>]
MappingKey == [kind |-> "mapping", key |-> <<>>]

ScalarKeys == {TextKey(<<"a">>), TextKey(<<"b">>), NumberKey(5)}

\* a path of n keys, text keys and number keys in turn
PathOf(textFirst, n) ==
    [i \in 1..n |->
        IF (i % 2 = 1) = textFirst THEN TextKey(<<"a">>) ELSE NumberKey(12)]

PathKeys == {SequenceKey(PathOf(f, n)) : f \in BOOLEAN, n \in 0..MaxPath}

IndexKeys == ScalarKeys \cup PathKeys \cup {NoneKey, MappingKey}

\* isinstance(index, util.string_types)
IsString(index) == index.kind = "text"

\* isinstance(index, collections.Sequence)
IsSequence(index) == index.kind \in {"sequence", "text"}

RECURSIVE NatDigits(_)
NatDigits(n) ==
    LET d == <<"0", "1", "2", "3", "4", "5", "6", "7", "8", "9">>
    IN  IF n < 10 THEN <<d[n + 1]>> ELSE NatDigits(n \div 10) \o <<d[(n % 10) + 1]>>

\* str() of an integer
IntText(n) == IF n < 0 THEN <<"-">> \o NatDigits(0 - n) ELSE NatDigits(n)

\* util.text_type(elem)
text_type(elem) == IF elem.kind = "text" THEN elem.key ELSE IntText(elem.key)

RECURSIVE JoinNoSpace(_, _)
JoinNoSpace(sep, texts) ==
    IF texts = <<>> THEN <<>>
    ELSE IF Len(texts) = 1 THEN texts[1]
    ELSE texts[1] \o <<",">> \o JoinNoSpace(sep, Tail(texts))

\* sep.join(texts)
RECURSIVE Join(_, _)
Join(sep, texts) ==
    IF texts = <<>> THEN <<>>
    ELSE IF Len(texts) = 1 THEN texts[1]
    ELSE texts[1] \o sep \o Join(sep, Tail(texts))

\* Indexable.Comparator._type_for_index: the index_map's entry for the
\* index, else SAME_TYPE
_type_for_index(type, index) ==
    IF index \in DOMAIN type.index_map THEN type.index_map[index] ELSE type.name

\* the path rendering of _setup_getitem
PathIndex(index) ==
    <<"{">>
        \o Join(<<",", " ">>, [i \in 1..Len(index.key) |-> text_type(index.key[i])])
        \o <<"}">>

_setup_getitem_NoAssert(type, index) ==
    IF ~IsString(index)
    THEN IF index.kind \in {"number", "none"}
         THEN [raised |-> "TypeError"]
         ELSE [raised |-> "", operator |-> PATHIDX, index |-> PathIndex(index),
               type |-> _type_for_index(type, PathIndex(index))]
    ELSE [raised |-> "", operator |-> INDEX, index |-> index.key,
          type |-> _type_for_index(type, index.key)]

\* JSON.Comparator._setup_getitem (assert statements are executed)
_setup_getitem(type, index) ==
    IF ~IsString(index)
    THEN IF ~IsSequence(index)
         THEN [raised |-> "AssertionError"]
         ELSE [raised |-> "", operator |-> PATHIDX, index |-> PathIndex(index),
               type |-> _type_for_index(type, PathIndex(index))]
    ELSE [raised |-> "", operator |-> INDEX, index |-> index.key,
          type |-> _type_for_index(type, index.key)]

astext_Swapped(e) ==
    LET against == IF e.operator = PATHIDX THEN ASTEXT ELSE ASTEXT_PATHIDX
    IN  operate(e.left, against, e.right, "Text")

astext_SameType(e) ==
    LET against == IF e.operator = PATHIDX THEN ASTEXT_PATHIDX ELSE ASTEXT
    IN  operate(e.left, against, e.right, e.type)

\* JSON.Comparator.astext, on a binary expression
astext(e) ==
    LET against == IF e.operator = PATHIDX THEN ASTEXT_PATHIDX ELSE ASTEXT
    IN  operate(e.left, against, e.right, "Text")

\* name lookup from a method body: module globals, then builtins
NameBound(name) == name \in ModuleGlobals \cup {"isinstance", "len", "str"}

\* Concatenable.Comparator._adapt_expression: the operator unchanged, with the
\* receiver's own type
Concatenable_adapt_expression(e, o, other) ==
    [raised |-> "", op |-> o, type |-> e.type]

\* JSONB.comparator_factory._adapt_expression; the name custom_op is looked
\* up when isinstance(op, custom_op) is evaluated
_adapt_expression(e, o, other) ==
    IF ~NameBound("custom_op")
    THEN [raised |-> "NameError"]
    ELSE IF o.is_custom /\ o.opstring \in {"?", "?&", "?|", "@>", "<@"}
    THEN [raised |-> "", op |-> o, type |-> "Boolean"]
    ELSE IF o.is_custom /\ o.opstring = "->"
    THEN [raised |-> "", op |-> o, type |-> "Text"]
    ELSE Concatenable_adapt_expression(e, o, other)

\* expr.op(opstring)(other): no result type is given, so the left operand's
\* comparator adapts the operator and chooses the result type
custom_op_operate(e, o, other) ==
    LET r == _adapt_expression(e, o, other)
    IN  IF r.raised # "" THEN [raised |-> r.raised]
        ELSE [raised |-> "", expr |-> BinaryExpression(e, other, r.op, r.type)]

has_key(e, other) == custom_op_operate(e, op("?"), other)

has_all(e, other) == custom_op_operate(e, op("?&"), other)

has_any(e, other) == custom_op_operate(e, op("?|"), other)

contains(e, other) == custom_op_operate(e, op("@>"), other)

contained_by(e, other) == custom_op_operate(e, op("<@"), other)

Predicates == {"has_key", "has_all", "has_any", "contains", "contained_by"}

\* the operand of a predicate: a literal value or another expression
Operands == {[kind |-> "literal", text |-> <<"x">>],
             [kind |-> "expression", text |-> <<"c">>]}

\* the operators handed to _adapt_expression
AdaptOps == {op("?"), op("<@"), INDEX, op("%"), concat_op, eq_op}

----------------------------------------------------------------------------
(* Python values handed to and returned by the processors: [t, v] with      *)
(* t the Python type.  A float is counted in halves (v = 3 is 1.5), a       *)
(* mapping is the sequence of its (key, value) pairs in iteration order.    *)

\* (the type field t is written first so that it is compared first)
None == [t |-> "none", v |-> 0]
\* elements.Null, the null() construct
SqlNull == [t |-> "sqlnull", v |-> 0]
Bool(b) == [t |-> "bool", v |-> b]
Int_(n) == [t |-> "int", v |-> n]
Float(halves) == [t |-> "float", v |-> halves]
NaN == [t |-> "nan", v |-> 0]
Infinity(sign) == [t |-> "inf", v |-> sign]
Str(chars) == [t |-> "str", v |-> chars]
List(items) == [t |-> "list", v |-> items]
Tuple(items) == [t |-> "tuple", v |-> items]
Dict(pairs) == [t |-> "dict", v |-> pairs]

\* the value of a bool, int or float, in halves
Halves(x) ==
    CASE x.t = "bool" -> IF x.v THEN 2 ELSE 0
      [] x.t = "int" -> 2 * x.v
      [] x.t = "float" -> x.v

\* Python's ==
RECURSIVE PyEq(_, _)
PyEq(a, b) ==
    CASE a.t \in {"bool", "int", "float"} ->
            b.t \in {"bool", "int", "float"} /\ Halves(a) = Halves(b)
      [] a.t = "nan" -> FALSE
      [] a.t \in {"inf", "str", "none", "sqlnull"} -> b.t = a.t /\ b.v = a.v
      [] a.t \in {"list", "tuple"} ->
            /\ b.t = a.t
            /\ Len(b.v) = Len(a.v)
            /\ \A i \in 1..Len(a.v) : PyEq(a.v[i], b.v[i])
      [] a.t = "dict" ->
            /\ b.t = "dict"
            /\ Len(b.v) = Len(a.v)
            /\ \A i \in 1..Len(a.v) : \E j \in 1..Len(b.v) :
                  PyEq(a.v[i][1], b.v[j][1]) /\ PyEq(a.v[i][2], b.v[j][2])

\* d[key] = val on a mapping's pairs
DictSet(pairs, key, val) ==
    IF \E i \in 1..Len(pairs) : PyEq(pairs[i][1], key)
    THEN [i \in 1..Len(pairs) |->
            IF PyEq(pairs[i][1], key) THEN <<pairs[i][1], val>> ELSE pairs[i]]
    ELSE Append(pairs, <<key, val>>)

----------------------------------------------------------------------------
(* json.dumps *)

\* float.__repr__
FloatText(x) ==
    CASE x.t = "nan" -> <<"N", "a", "N">>
      [] x.t = "inf" ->
            (IF x.v < 0 THEN <<"-">> ELSE <<>>)
                \o <<"I", "n", "f", "i", "n", "i", "t", "y">>
      [] x.t = "float" ->
            LET m == IF x.v < 0 THEN 0 - x.v ELSE x.v
            IN  (IF x.v < 0 THEN <<"-">> ELSE <<>>)
                    \o NatDigits(m \div 2) \o <<".">>
                    \o (IF m % 2 = 1 THEN <<"5">> ELSE <<"0">>)

RECURSIVE Escaped(_)
Escaped(chars) ==
    IF chars = <<>> THEN <<>>
    ELSE (IF Head(chars) \in {"\"", "\\"} THEN <<"\\", Head(chars)>>
          ELSE <<Head(chars)>>) \o Escaped(Tail(chars))

\* a text as a JSON string
Quoted(chars) == <<"\"">> \o Escaped(chars) \o <<"\"">>

\* the text of a scalar as JSON writes it
ScalarText(x) ==
    CASE x.t = "none" -> <<"n", "u", "l", "l">>
      [] x.t = "bool" ->
            IF x.v THEN <<"t", "r", "u", "e">> ELSE <<"f", "a", "l", "s", "e">>
      [] x.t = "int" -> IntText(x.v)
      [] x.t \in {"float", "nan", "inf"} -> FloatText(x)

\* a mapping's key: a text as it is, any other scalar as the string of its
\* JSON text
KeyText(k) == IF k.t = "str" THEN Quoted(k.v) ELSE Quoted(ScalarText(k))

\* json.dumps(x, separators=(item, key))
RECURSIVE Dumps(_, _, _)
Dumps(x, item, key) ==
    CASE x.t = "str" -> Quoted(x.v)
      [] x.t \in {"list", "tuple"} ->
            <<"[">>
                \o Join(item, [i \in 1..Len(x.v) |-> Dumps(x.v[i], item, key)])
                \o <<"]">>
      [] x.t = "dict" ->
            <<"{">>
                \o Join(item, [i \in 1..Len(x.v) |->
                        KeyText(x.v[i][1]) \o key \o Dumps(x.v[i][2], item, key)])
                \o <<"}">>
      [] OTHER -> ScalarText(x)

\* json.dumps, the default serializer
json_dumps(x) == Dumps(x, <<",", " ">>, <<":", " ">>)

\* a serializer given to create_engine: json.dumps with compact separators
compact_dumps(x) == Dumps(x, <<",">>, <<":">>)

----------------------------------------------------------------------------
(* json.loads *)

Digit == <<"0", "1", "2", "3", "4", "5", "6", "7", "8", "9">>
IsDigit(c) == \E n \in 1..10 : Digit[n] = c
DigitValue(c) == (CHOOSE n \in 1..10 : Digit[n] = c) - 1

\* the character at i, "" past the end
At(s, i) == IF i >= 1 /\ i <= Len(s) THEN s[i] ELSE ""

StartsWith(s, i, lit) ==
    i + Len(lit) - 1 <= Len(s) /\ SubSeq(s, i, i + Len(lit) - 1) = lit

RECURSIVE SkipWs(_, _)
SkipWs(s, i) == IF At(s, i) = " " THEN SkipWs(s, i + 1) ELSE i

\* the index after the digits that start at i
RECURSIVE DigitsEnd(_, _)
DigitsEnd(s, i) == IF IsDigit(At(s, i)) THEN DigitsEnd(s, i + 1) ELSE i

\* the number written by the digits s[i..j-1]
RECURSIVE NatValue(_, _, _)
NatValue(s, i, j) ==
    IF j <= i THEN 0 ELSE 10 * NatValue(s, i, j - 1) + DigitValue(s[j - 1])

ParseFail == [ok |-> FALSE, v |-> None, i |-> 0]
Parsed(v, i) == [ok |-> TRUE, v |-> v, i |-> i]

\* a number: an int, or with a fraction a float (fractions .0 and .5, which
\* is what FloatText writes)
ParseNumber(s, i) ==
    LET neg == At(s, i) = "-"
        a == IF neg THEN i + 1 ELSE i
        b == DigitsEnd(s, a)
        n == NatValue(s, a, b)
        sign == IF neg THEN 0 - 1 ELSE 1
    IN  IF b = a THEN ParseFail
        ELSE IF At(s, b) = "."
        THEN LET c == DigitsEnd(s, b + 1)
             IN  IF c = b + 1 THEN ParseFail
                 ELSE Parsed(Float(sign * (2 * n
                         + (IF At(s, b + 1) = "5" THEN 1 ELSE 0))), c)
        ELSE Parsed(Int_(sign * n), b)

\* the characters of a string up to its closing quote, i after the opening
RECURSIVE ParseString(_, _, _)
ParseString(s, i, acc) ==
    LET c == At(s, i)
    IN  CASE c = "" -> ParseFail
          [] c = "\"" -> Parsed(Str(acc), i + 1)
          [] c = "\\" ->
                IF At(s, i + 1) \in {"\"", "\\"}
                THEN ParseString(s, i + 2, Append(acc, At(s, i + 1)))
                ELSE ParseFail
          [] OTHER -> ParseString(s, i + 1, Append(acc, c))

RECURSIVE ParseValue(_, _)
RECURSIVE ParseElems(_, _, _)
RECURSIVE ParseMembers(_, _, _)

\* the elements of an array, i at the start of an element
ParseElems(s, i, acc) ==
    LET r == ParseValue(s, i)
        j == SkipWs(s, r.i)
    IN  IF ~r.ok THEN ParseFail
        ELSE CASE At(s, j) = "," -> ParseElems(s, j + 1, Append(acc, r.v))
               [] At(s, j) = "]" -> Parsed(List(Append(acc, r.v)), j + 1)
               [] OTHER -> ParseFail

\* the members of an object, i at the start of a key
ParseMembers(s, i, acc) ==
    LET a == SkipWs(s, i)
        k == IF At(s, a) = "\"" THEN ParseString(s, a + 1, <<>>) ELSE ParseFail
        b == SkipWs(s, k.i)
        r == IF k.ok /\ At(s, b) = ":" THEN ParseValue(s, b + 1) ELSE ParseFail
        j == SkipWs(s, r.i)
    IN  IF ~r.ok THEN ParseFail
        ELSE CASE At(s, j) = "," -> ParseMembers(s, j + 1, DictSet(acc, k.v, r.v))
               [] At(s, j) = "}" -> Parsed(Dict(DictSet(acc, k.v, r.v)), j + 1)
               [] OTHER -> ParseFail

ParseValue(s, i) ==
    LET j == SkipWs(s, i)
        c == At(s, j)
    IN  CASE c = "{" ->
                IF At(s, SkipWs(s, j + 1)) = "}"
                THEN Parsed(Dict(<<>>), SkipWs(s, j + 1) + 1)
                ELSE ParseMembers(s, j + 1, <<>>)
          [] c = "[" ->
                IF At(s, SkipWs(s, j + 1)) = "]"
                THEN Parsed(List(<<>>), SkipWs(s, j + 1) + 1)
                ELSE ParseElems(s, j + 1, <<>>)
          [] c = "\"" -> ParseString(s, j + 1, <<>>)
          [] StartsWith(s, j, <<"n", "u", "l", "l">>) -> Parsed(None, j + 4)
          [] StartsWith(s, j, <<"t", "r", "u", "e">>) -> Parsed(Bool(TRUE), j + 4)
          [] StartsWith(s, j, <<"f", "a", "l", "s", "e">>) -> Parsed(Bool(FALSE), j + 5)
          [] StartsWith(s, j, <<"N", "a", "N">>) -> Parsed(NaN, j + 3)
          [] StartsWith(s, j, <<"I", "n", "f", "i", "n", "i", "t", "y">>) ->
                Parsed(Infinity(1), j + 8)
          [] StartsWith(s, j, <<"-", "I", "n", "f", "i", "n", "i", "t", "y">>) ->
                Parsed(Infinity(0 - 1), j + 9)
          [] c = "-" \/ IsDigit(c) -> ParseNumber(s, j)
          [] OTHER -> ParseFail

\* json.loads, the default deserializer: one value, then only whitespace
json_loads(s) ==
    LET r == ParseValue(s, 1)
    IN  IF r.ok /\ SkipWs(s, r.i) = Len(s) + 1
        THEN [raised |-> "", v |-> r.v]
        ELSE [raised |-> "ValueError", v |-> None]

----------------------------------------------------------------------------
(* Text and bytes: str.encode(encoding) / bytes.decode(encoding), for the   *)
(* ASCII characters json.dumps writes                                       *)

AsciiTable ==
    << <<" ", 32>>, <<"\"", 34>>, <<",", 44>>, <<"-", 45>>, <<".", 46>>,
       <<"0", 48>>, <<"1", 49>>, <<"2", 50>>, <<"3", 51>>, <<"4", 52>>,
       <<"5", 53>>, <<"6", 54>>, <<"7", 55>>, <<"8", 56>>, <<"9", 57>>,
       <<":", 58>>, <<"I", 73>>, <<"N", 78>>, <<"[", 91>>, <<"\\", 92>>,
       <<"]", 93>>, <<"a", 97>>, <<"e", 101>>, <<"f", 102>>, <<"i", 105>>,
       <<"l", 108>>, <<"n", 110>>, <<"r", 114>>, <<"s", 115>>, <<"t", 116>>,
       <<"u", 117>>, <<"y", 121>>, <<"{", 123>>, <<"}", 125>> >>

encode(chars) ==
    [i \in 1..Len(chars) |->
        AsciiTable[CHOOSE n \in 1..Len(AsciiTable) : AsciiTable[n][1] = chars[i]][2]]

decode(bytes) ==
    [i \in 1..Len(bytes) |->
        AsciiTable[CHOOSE n \in 1..Len(AsciiTable) : AsciiTable[n][2] = bytes[i]][1]]

Absent == [kind |-> "absent", payload |-> <<>>]
TextPayload(chars) == [kind |-> "text", payload |-> chars]
BytePayload(bytes) == [kind |-> "bytes", payload |-> bytes]

----------------------------------------------------------------------------
(* The processors *)

\* dialect._json_serializer or json.dumps
json_serializer(d, x) ==
    IF d.json_serializer = "None" THEN json_dumps(x) ELSE compact_dumps(x)

\* dialect._json_deserializer or json.loads
json_deserializer(d, s) == json_loads(s)

bind_processor_Falsy(type, d, x) ==
    LET falsy == \/ x.t = "none"
                 \/ x.t = "bool" /\ ~x.v
                 \/ x.t \in {"int", "float"} /\ x.v = 0
                 \/ x.t \in {"str", "list", "tuple", "dict"} /\ x.v = <<>>
    IN  IF x.t = "sqlnull" \/ (falsy /\ type.none_as_null)
        THEN Absent
        ELSE IF d.py2k THEN BytePayload(encode(json_serializer(d, x)))
        ELSE TextPayload(json_serializer(d, x))

bind_processor_IgnoresFlag(type, d, x) ==
    IF x.t = "sqlnull" \/ x.t = "none"
    THEN Absent
    ELSE IF d.py2k THEN BytePayload(encode(json_serializer(d, x)))
    ELSE TextPayload(json_serializer(d, x))

\* JSON.bind_processor(dialect)(value)
bind_processor(type, d, x) ==
    IF x.t = "sqlnull" \/ (x.t = "none" /\ type.none_as_null)
    THEN Absent
    ELSE IF d.py2k THEN BytePayload(encode(json_serializer(d, x)))
    ELSE TextPayload(json_serializer(d, x))

\* JSON.result_processor(dialect, coltype)(value)
result_processor(type, d, w) ==
    IF w.kind = "absent" THEN [raised |-> "", v |-> None]
    ELSE IF d.py2k THEN json_deserializer(d, decode(w.payload))
    ELSE json_deserializer(d, w.payload)

----------------------------------------------------------------------------
(* Building expressions *)

NoCall == [name |-> "none", arg |-> NoneKey, recv |-> NoneKey]

IdleCodec ==
    /\ dialect = [json_serializer |-> "None", json_deserializer |-> "None",
                  py2k |-> FALSE]
    /\ pc = "idle"
    /\ value = None
    /\ wire = Absent
    /\ back = [raised |-> "", v |-> None]

Init ==
    /\ self \in {JSON_init(n, FALSE, m) :
                    n \in DocTypes, m \in {DefaultIndexMap, CustomIndexMap}}
    /\ expr = Column(self)
    /\ call = NoCall
    /\ raised = ""
    /\ adapted = [raised |-> ""]
    /\ IdleCodec

\* the comparator of an expression is that of its type: only a JSON or
\* JSONB expression has JSON.Comparator (or JSONB's)
HasComparator(e) == e.type \in DocTypes

\* Indexable.Comparator.__getitem__: expr[index]
GetItem(index) ==
    /\ HasComparator(expr)
    /\ Depth(expr) < MaxChain
    /\ LET r == _setup_getitem(self, index)
       IN  /\ raised' = r.raised
           /\ expr' = IF r.raised # "" THEN expr
                      ELSE operate(expr, r.operator, r.index, r.type)
    /\ call' = [name |-> "getitem", arg |-> index, recv |-> expr]
    /\ UNCHANGED <<self, adapted>>
    /\ UNCHANGED codecVars

\* expr.astext; a column has no operator attribute
AsText ==
    /\ HasComparator(expr)
    /\ raised' = IF expr.kind = "column" THEN "AttributeError" ELSE ""
    /\ expr' = IF expr.kind = "column" THEN expr ELSE astext(expr)
    /\ call' = [name |-> "astext", arg |-> NoneKey, recv |-> expr]
    /\ UNCHANGED <<self, adapted>>
    /\ UNCHANGED codecVars

\* expr.has_key(other), ... on a JSONB expression
Predicate(name, other) ==
    /\ expr.type = "JSONB"
    /\ LET r == CASE name = "has_key" -> has_key(expr, other)
                  [] name = "has_all" -> has_all(expr, other)
                  [] name = "has_any" -> has_any(expr, other)
                  [] name = "contains" -> contains(expr, other)
                  [] OTHER -> contained_by(expr, other)
       IN  /\ raised' = r.raised
           /\ expr' = IF r.raised # "" THEN expr ELSE r.expr
    /\ call' = [name |-> name, arg |-> other, recv |-> expr]
    /\ UNCHANGED <<self, adapted>>
    /\ UNCHANGED codecVars

\* a binary operation on a JSONB expression with no result type given: the
\* comparator's _adapt_expression(op, other_comparator) is called
Adapt(o, other) ==
    /\ expr.type = "JSONB"
    /\ LET r == _adapt_expression(expr, o, other)
       IN  /\ raised' = r.raised
           /\ adapted' = r
    /\ call' = [name |-> "_adapt_expression", arg |-> o, recv |-> expr]
    /\ UNCHANGED <<self, expr>>
    /\ UNCHANGED codecVars

Next ==
    \/ \E index \in IndexKeys : GetItem(index)
    \/ AsText
    \/ \E name \in Predicates, other \in Operands : Predicate(name, other)
    \/ \E o \in AdaptOps, other \in Operands : Adapt(o, other)

Spec == Init /\ [][Next]_vars

----------------------------------------------------------------------------
(* Binding and fetching values *)

Scalars ==
    {None, SqlNull, Bool(TRUE), Bool(FALSE), Int_(0), Int_(12), Int_(0 - 3),
     Float(3), Float(2), Float(0 - 1), NaN, Infinity(1), Infinity(0 - 1),
     Str(<<>>), Str(<<"a">>), Str(<<"1", "\"">>)}

\* what a list or tuple may hold
Items ==
    {None, Bool(TRUE), Int_(1), Float(3), Str(<<"a">>), NaN,
     List(<<Int_(1)>>), Tuple(<<Int_(1)>>),
     Dict(<< <<Str(<<"a">>), Int_(1)>> >>)}

\* the keys and values of a mapping
Keys == {Str(<<"a">>), Str(<<"1">>), Int_(1)}
Members == {Int_(1), Str(<<"a">>), List(<<Str(<<"a">>)>>)}

SeqsUpTo(S, n) == UNION {[1..m -> S] : m \in 0..n}

Mappings ==
    {Dict([i \in 1..Len(ks) |-> <<ks[i], ms[i]>>]) :
        <<ks, ms>> \in {p \in SeqsUpTo(Keys, MaxLen) \X SeqsUpTo(Members, MaxLen) :
            /\ Len(p[1]) = Len(p[2])
            /\ \A i, j \in 1..Len(p[1]) : i # j => p[1][i] # p[1][j]}}

Values ==
    Scalars
        \cup {List(q) : q \in SeqsUpTo(Items, MaxLen)}
        \cup {Tuple(q) : q \in SeqsUpTo(Items, MaxLen)}
        \cup Mappings

Dialects ==
    {[json_serializer |-> ser, json_deserializer |-> "None", py2k |-> py2k] :
        ser \in {"None", "compact"}, py2k \in BOOLEAN}

CodecInit ==
    /\ self \in {JSON_init(n, nn, DefaultIndexMap) : n \in DocTypes, nn \in BOOLEAN}
    /\ dialect \in Dialects
    /\ value \in Values
    /\ pc = "idle"
    /\ wire = Absent
    /\ back = [raised |-> "", v |-> None]
    /\ expr = Column(self)
    /\ call = NoCall
    /\ raised = ""
    /\ adapted = [raised |-> ""]

\* the bind processor is applied to the value
Bind ==
    /\ pc = "idle"
    /\ wire' = bind_processor(self, dialect, value)
    /\ pc' = "bound"
    /\ UNCHANGED <<dialect, value, back>>
    /\ UNCHANGED exprVars

\* the result processor is applied to what was stored
Result ==
    /\ pc = "bound"
    /\ back' = result_processor(self, dialect, wire)
    /\ pc' = "fetched"
    /\ UNCHANGED <<dialect, value, wire>>
    /\ UNCHANGED exprVars

CodecNext == Bind \/ Result

CodecSpec == CodecInit /\ [][CodecNext]_vars

----------------------------------------------------------------------------
(* Claims about the processors *)

\* the text of a payload
PayloadText(w) == IF w.kind = "bytes" THEN decode(w.payload) ELSE w.payload

\* C6: bind returns 'absent' exactly when the value is the persist-as-NULL
\* marker, or the value is None and none_as_null is true; for None with
\* none_as_null false it returns the encoding of null, a payload; for every
\* other value it returns the serializer's payload.
C6_BindNull ==
    (pc # "idle") =>
        /\ wire.kind = "absent"
              <=> (value.t = "sqlnull" \/ (value.t = "none" /\ self.none_as_null))
        /\ wire.kind # "absent"
              => /\ wire.kind = (IF dialect.py2k THEN "bytes" ELSE "text")
                 /\ PayloadText(wire) = json_serializer(dialect, value)
                 /\ Len(wire.payload) = Len(PayloadText(wire))
                 /\ Len(wire.payload) > 0
        /\ (value.t = "none" /\ ~self.none_as_null)
              => PayloadText(wire) = <<"n", "u", "l", "l">>

C6_Witness ==
    /\ pc = "bound"
    /\ value.t = "none"
    /\ ~self.none_as_null
    /\ dialect.py2k
    /\ wire.payload = <<110, 117, 108, 108>>

DefaultCodec ==
    dialect.json_serializer = "None" /\ dialect.json_deserializer = "None"

\* C7 as stated: with the default codec, for every mapping, ordered
\* sequence, text, integer, floating-point number or boolean v,
\* result(bind(v)) equals v, for text and for byte payloads.
C7_Original ==
    (pc = "fetched" /\ DefaultCodec
        /\ value.t \in {"dict", "list", "tuple", "str", "int", "float", "nan",
                         "inf", "bool"})
        => (back.raised = "" /\ PyEq(back.v, value))

\* a value that JSON has a form of its own for: a mapping with text keys, a
\* list, a text, an integer, a float other than NaN, a boolean or None, and
\* in a mapping or list only such values
RECURSIVE JsonNative(_)
JsonNative(x) ==
    CASE x.t = "dict" ->
            \A i \in 1..Len(x.v) : x.v[i][1].t = "str" /\ JsonNative(x.v[i][2])
      [] x.t = "list" -> \A i \in 1..Len(x.v) : JsonNative(x.v[i])
      [] x.t \in {"str", "int", "float", "inf", "bool", "none"} -> TRUE
      [] OTHER -> FALSE

\* C7 amended: with the default codec, for every v that is a mapping with
\* text keys, a list, a text, an integer, a float other than NaN or a
\* boolean, and that holds only such values (or None) at every depth,
\* result(bind(v)) equals v, for text and for byte payloads.
C7_RoundTrip ==
    (pc = "fetched" /\ DefaultCodec /\ value.t # "none" /\ JsonNative(value))
        => (back.raised = "" /\ PyEq(back.v, value) /\ back.v.t = value.t)

C7_Witness ==
    /\ pc = "fetched"
    /\ DefaultCodec
    /\ dialect.py2k
    /\ value = Dict(<< <<Str(<<"a">>), List(<<Str(<<"a">>)>>)>>,
                       <<Str(<<"1">>), Int_(1)>> >>)
    /\ back.v = value

----------------------------------------------------------------------------
(* Claims about index, astext, the JSONB predicates and adaptation *)

IsGetItem == call.name = "getitem"

\* a text key that the index_map has no entry for; a number is never a key
\* of the index_maps above
NotInIndexMap(k) ==
    IF k.kind = "text" THEN k.key \notin DOMAIN self.index_map ELSE TRUE

\* C1: for every scalar key k (text or number) not present in the
\* index_map, indexing resolves to operator INDEX ('->'), the rendered index
\* is k unchanged, and the result type is the column's own type.
C1_ScalarIndex ==
    (IsGetItem /\ call.arg.kind \in {"text", "number"} /\ NotInIndexMap(call.arg))
        => /\ raised = ""
           /\ expr.kind = "binary"
           /\ expr.left = call.recv
           /\ expr.operator.opstring = "->"
           /\ expr.right = call.arg.key
           /\ expr.type = self.name

\* the text form of a key, written out
ExpectedText(k) ==
    IF k.kind = "text" THEN k.key
    ELSE CASE k.key = 5 -> <<"5">>
           [] k.key = 12 -> <<"1", "2">>

\* where the text of key i starts in "{k1, k2, ..., kn}"
RECURSIVE Offset(_, _)
Offset(keys, i) ==
    IF i = 1 THEN 2 ELSE Offset(keys, i - 1) + Len(ExpectedText(keys[i - 1])) + 2

\* r is "{", the keys' text forms in order, each but the last followed by
\* ", ", and "}"
PathRendering(r, keys) ==
    LET n == Len(keys)
        end(i) == Offset(keys, i) + Len(ExpectedText(keys[i]))
    IN  /\ Len(r) = end(n)
        /\ r[1] = "{"
        /\ r[Len(r)] = "}"
        /\ \A i \in 1..n :
              SubSeq(r, Offset(keys, i), end(i) - 1) = ExpectedText(keys[i])
        /\ \A i \in 1..(n - 1) : r[end(i)] = "," /\ r[end(i) + 1] = " "

\* C2: for every non-empty ordered sequence of keys, indexing resolves to
\* operator PATHIDX ('#>') and the rendered index is '{' + the keys' text
\* forms joined by ', ' in their order + '}'.
C2_PathIndex ==
    (IsGetItem /\ call.arg.kind = "sequence" /\ Len(call.arg.key) >= 1)
        => /\ raised = ""
           /\ expr.kind = "binary"
           /\ expr.left = call.recv
           /\ expr.operator.opstring = "#>"
           /\ PathRendering(expr.right, call.arg.key)

C2_Witness ==
    /\ IsGetItem
    /\ call.arg = SequenceKey(<<TextKey(<<"a">>), NumberKey(12)>>)
    /\ raised = ""
    /\ expr.right = <<"{", "a", ",", " ", "1", "2", "}">>

\* C3 as stated: the index operation fails, producing no expression,
\* whenever the key is neither a scalar nor a non-empty ordered sequence; an
\* empty sequence is rejected.
C3_Original ==
    (IsGetItem /\ ~(\/ call.arg.kind \in {"text", "number"}
                    \/ (call.arg.kind = "sequence" /\ Len(call.arg.key) >= 1)))
        => (raised # "" /\ expr = call.recv)

\* C3 amended: the index operation fails (an assertion failure), producing
\* no expression, whenever the key is neither a scalar nor an ordered
\* sequence; an empty sequence is accepted and yields PATHIDX with the
\* rendered index '{}'.
C3_InvalidKeyRejected ==
    IsGetItem =>
        /\ call.arg.kind \notin {"text", "number", "sequence"}
              => (raised = "AssertionError" /\ expr = call.recv)
        /\ call.arg = SequenceKey(<<>>)
              => /\ raised = ""
                 /\ expr.kind = "binary"
                 /\ expr.left = call.recv
                 /\ expr.operator.opstring = "#>"
                 /\ expr.right = <<"{", "}">>

C3_Witness ==
    /\ IsGetItem
    /\ call.arg.kind = "none"
    /\ raised = "AssertionError"
    /\ expr.kind = "binary"
    /\ expr.right = <<"{", "}">>

\* C4: astext on an expression whose operator is INDEX yields operator
\* ASTEXT ('->>'), on one whose operator is PATHIDX yields ASTEXT_PATHIDX
\* ('#>>'); the new expression has the receiver's left and right operands and
\* result type Text.
C4_AsText ==
    (call.name = "astext" /\ raised = "")
        => /\ call.recv.operator.opstring = "->" => expr.operator.opstring = "->>"
           /\ call.recv.operator.opstring = "#>" => expr.operator.opstring = "#>>"
           /\ expr.left = call.recv.left
           /\ expr.right = call.recv.right
           /\ expr.type = "Text"

C4_Witness ==
    /\ call.name = "astext"
    /\ raised = ""
    /\ call.recv.operator.opstring = "#>"
    /\ expr.operator.opstring = "#>>"
    /\ expr.type = "Text"

PredicateSymbol(name) ==
    CASE name = "has_key" -> "?"
      [] name = "has_all" -> "?&"
      [] name = "has_any" -> "?|"
      [] name = "contains" -> "@>"
      [] name = "contained_by" -> "<@"

\* C5: on a JSONB receiver, has_key, has_all, has_any, contains and
\* contained_by each produce an expression with operator '?', '?&', '?|',
\* '@>', '<@' respectively and result type Boolean, whatever the operand.
C5_PredicatesBoolean ==
    (call.name \in Predicates)
        => /\ raised = ""
           /\ expr.kind = "binary"
           /\ expr.left = call.recv
           /\ expr.right = call.arg
           /\ expr.operator.opstring = PredicateSymbol(call.name)
           /\ expr.type = "Boolean"

Registry == {INDEX, PATHIDX, ASTEXT, ASTEXT_PATHIDX}

RegistrySymbols == {"->", "#>", "->>", "#>>"}

\* the operator of an expression that index or astext built
BuiltOperator ==
    /\ (IsGetItem \/ call.name = "astext") /\ raised = ""
          => expr.operator.opstring \in RegistrySymbols
    /\ expr.kind = "binary" /\ expr.operator.opstring \in RegistrySymbols
          => expr.operator \in Registry

\* C8 as stated: four operators '->', '#>', '->>', '#>>', all of precedence
\* 5; INDEX and PATHIDX are self-precedent, ASTEXT and ASTEXT_PATHIDX are
\* not.
C8_Original ==
    /\ BuiltOperator
    /\ expr.kind = "binary" /\ expr.operator.opstring \in RegistrySymbols
          => /\ expr.operator.precedence = 5
             /\ expr.operator.natural_self_precedent
                   <=> expr.operator.opstring \in {"->", "#>"}

\* C8 amended: four operators '->', '#>', '->>', '#>>', all of precedence 5
\* and all four self-precedent.
C8_Registry ==
    /\ BuiltOperator
    /\ {o.opstring : o \in Registry} = RegistrySymbols
    /\ expr.kind = "binary" /\ expr.operator.opstring \in RegistrySymbols
          => /\ expr.operator.precedence = 5
             /\ expr.operator.natural_self_precedent

C8_Witness ==
    /\ expr.kind = "binary"
    /\ expr.operator.opstring = "#>>"
    /\ expr.operator.natural_self_precedent
    /\ expr.left.kind = "binary"
    /\ expr.left.operator.opstring = "->"
    /\ expr.left.operator.natural_self_precedent

\* C9: JSONB's _adapt_expression never ends in an error; for INDEX it
\* returns the operator unchanged with result type Text, and for every
\* operator that is neither a membership operator nor INDEX it returns what
\* the Concatenable default adaptation returns.
C9_AdaptTotal ==
    (call.name = "_adapt_expression")
        => /\ raised = ""
           /\ call.arg = INDEX
                 => (adapted.op = call.arg /\ adapted.type = "Text")
           /\ ~(call.arg.is_custom
                   /\ call.arg.opstring \in {"?", "?&", "?|", "@>", "<@", "->"})
                 => \A other \in Operands :
                       adapted = Concatenable_adapt_expression(call.recv, call.arg, other)

=============================================================================
